---- MODULE Spec2Model ----
(***************************************************************************)
(* Model of streamlit_SCHC.py: the hybrid estimation layer                 *)
(* (predict_demand_and_risk, estimate_lane), the decision rule and the     *)
(* carrier comparison of the SCHC advisor.                                 *)
(*                                                                         *)
(* Python floats are modelled as exact rationals <<n, d>> in lowest terms  *)
(* with d > 0, so that equality of values is equality of pairs.            *)
(***************************************************************************)
EXTENDS Integers, Sequences, FiniteSets, TLC

\* ------------------------------------------------------------------------
\* Bounds of the model
\* ------------------------------------------------------------------------
MaxShipments == 6
MaxDemandRecords == 2

\* ------------------------------------------------------------------------
\* Rational arithmetic (the float arithmetic of the script)
\* ------------------------------------------------------------------------
Abs(x) == IF x < 0 THEN -x ELSE x

RECURSIVE Gcd(_, _)
Gcd(a, b) == IF b = 0 THEN a ELSE Gcd(b, a % b)

Norm(n, d) ==
    LET s == IF d < 0 THEN -1 ELSE 1
        g == Gcd(Abs(n), Abs(d))
    IN  <<(s * n) \div g, (s * d) \div g>>

R(n, d) == Norm(n, d)
Float(i) == <<i, 1>>
RAdd(x, y) == Norm(x[1] * y[2] + y[1] * x[2], x[2] * y[2])
RSub(x, y) == Norm(x[1] * y[2] - y[1] * x[2], x[2] * y[2])
RMul(x, y) == Norm(x[1] * y[1], x[2] * y[2])
RDiv(x, y) == Norm(x[1] * y[2], x[2] * y[1])
RLt(x, y) == x[1] * y[2] < y[1] * x[2]
RLe(x, y) == x[1] * y[2] <= y[1] * x[2]
RGe(x, y) == RLe(y, x)

\* ------------------------------------------------------------------------
\* Reference data: the rows the two required CSV files may hold
\* ------------------------------------------------------------------------
ShipmentPool ==
    << [Origin |-> "Austin", Destination |-> "Xenia", Carrier |-> "CarrierA",
        ServiceLevel |-> "Expedited", Distance |-> 700, Weight |-> 30000,
        Stops |-> 1, ShipmentCost |-> 250, OnTimeDelivery |-> 1],
       [Origin |-> "Austin", Destination |-> "Xenia", Carrier |-> "CarrierB",
        ServiceLevel |-> "Standard", Distance |-> 720, Weight |-> 32000,
        Stops |-> 2, ShipmentCost |-> 300, OnTimeDelivery |-> 0],
       [Origin |-> "Austin", Destination |-> "Xenia", Carrier |-> "CarrierA",
        ServiceLevel |-> "Standard", Distance |-> 740, Weight |-> 35000,
        Stops |-> 1, ShipmentCost |-> 400, OnTimeDelivery |-> 0],
       [Origin |-> "Austin", Destination |-> "Xenia", Carrier |-> "CarrierC",
        ServiceLevel |-> "Standard", Distance |-> 760, Weight |-> 35000,
        Stops |-> 3, ShipmentCost |-> 280, OnTimeDelivery |-> 1],
       [Origin |-> "Austin", Destination |-> "Xenia", Carrier |-> "CarrierB",
        ServiceLevel |-> "Standard", Distance |-> 780, Weight |-> 36000,
        Stops |-> 1, ShipmentCost |-> 310, OnTimeDelivery |-> 1],
       [Origin |-> "Boston", Destination |-> "Yuma", Carrier |-> "CarrierA",
        ServiceLevel |-> "Standard", Distance |-> 1200, Weight |-> 20000,
        Stops |-> 2, ShipmentCost |-> 500, OnTimeDelivery |-> 0],
       [Origin |-> "Boston", Destination |-> "Yuma", Carrier |-> "CarrierC",
        ServiceLevel |-> "Expedited", Distance |-> 1000, Weight |-> 25000,
        Stops |-> 1, ShipmentCost |-> 450, OnTimeDelivery |-> 1],
       [Origin |-> "Austin", Destination |-> "Yuma", Carrier |-> "CarrierB",
        ServiceLevel |-> "Standard", Distance |-> 300, Weight |-> 15000,
        Stops |-> 1, ShipmentCost |-> 150, OnTimeDelivery |-> 1] >>

DemandPool ==
    << [Hospital |-> "GenHosp", Region |-> "MW", Medicine |-> "InsulinX",
        Month |-> 6, Inventory |-> 150, LeadTimeDays |-> 7, Demand |-> 300],
       [Hospital |-> "CityMed", Region |-> "NE", Medicine |-> "InsulinX",
        Month |-> 1, Inventory |-> 200, LeadTimeDays |-> 7, Demand |-> 900],
       [Hospital |-> "GenHosp", Region |-> "MW", Medicine |-> "SalineY",
        Month |-> 6, Inventory |-> 40, LeadTimeDays |-> 3, Demand |-> 45],
       [Hospital |-> "GenHosp", Region |-> "MW", Medicine |-> "InsulinX",
        Month |-> 6, Inventory |-> 120, LeadTimeDays |-> 7, Demand |-> 345] >>

\* The i-th row of a file of any length (the pool repeats).
PoolRow(pool, i) == pool[((i - 1) % Len(pool)) + 1]
Rows(pool, k) == [i \in 1..k |-> PoolRow(pool, i)]

\* Names in the order sorted() gives them.
SortedOrigins == <<"Austin", "Boston">>
SortedDestinations == <<"Xenia", "Yuma">>
SortedCarriers == <<"CarrierA", "CarrierB", "CarrierC">>
SortedServiceLevels == <<"Expedited", "Standard">>
SortedHospitals == <<"CityMed", "GenHosp">>
SortedMedicines == <<"InsulinX", "SalineY">>

\* ------------------------------------------------------------------------
\* pandas helpers
\* ------------------------------------------------------------------------
RECURSIVE SumCol(_, _)
SumCol(rows, col) ==
    IF rows = <<>> THEN 0 ELSE rows[1][col] + SumCol(Tail(rows), col)

\* Series.mean() of a numeric column of a non-empty frame
Mean(rows, col) == R(SumCol(rows, col), Len(rows))

ColValues(rows, col) == {rows[i][col] : i \in 1..Len(rows)}

\* sorted(df[col].unique().tolist())
SortedUnique(rows, col, order) ==
    SelectSeq(order, LAMBDA v : v \in ColValues(rows, col))

\* DataFrame.query / boolean-mask row selection (row order is kept)
LaneRows(rows, origin, destination) ==
    SelectSeq(rows, LAMBDA r : r.Origin = origin /\ r.Destination = destination)

LaneKeyRows(rows, origin, destination, carrier, service) ==
    SelectSeq(rows, LAMBDA r : /\ r.Origin = origin
                               /\ r.Destination = destination
                               /\ r.Carrier = carrier
                               /\ r.ServiceLevel = service)

DemandKeyRows(rows, hospital, medicine, month) ==
    SelectSeq(rows, LAMBDA r : /\ r.Hospital = hospital
                               /\ r.Medicine = medicine
                               /\ r.Month = month)

\* ------------------------------------------------------------------------
\* Program constants
\* ------------------------------------------------------------------------
None == "None"
months == 1..12
DaysPerMonth == 30
MinLaneSamples == 5
DefaultDistance == 800
DefaultOnTime == R(65, 100)
DefaultCost == Float(300)
HighShortage == R(8, 10)
LowShortage == R(2, 10)
ShortageCutoff == R(5, 10)
OnTimeCutoff == R(7, 10)
DefaultRegion == "MW"

\* ------------------------------------------------------------------------
\* Helpers (stats-only fallbacks)
\* ------------------------------------------------------------------------
\* Every (Origin, Destination, Carrier, ServiceLevel) key in groupby order
LaneKeyAt(i) ==
    LET nD == Len(SortedDestinations)
        nC == Len(SortedCarriers)
        nS == Len(SortedServiceLevels)
        j  == i - 1
    IN  [Origin       |-> SortedOrigins[(j \div (nD * nC * nS)) + 1],
         Destination  |-> SortedDestinations[((j \div (nC * nS)) % nD) + 1],
         Carrier      |-> SortedCarriers[((j \div nS) % nC) + 1],
         ServiceLevel |-> SortedServiceLevels[(j % nS) + 1]]

NumLaneKeys ==
    Len(SortedOrigins) * Len(SortedDestinations) * Len(SortedCarriers)
        * Len(SortedServiceLevels)

compute_lane_stats(shipments) ==
    LET grp(k) == LaneKeyRows(shipments, k.Origin, k.Destination, k.Carrier,
                              k.ServiceLevel)
        keys == SelectSeq([i \in 1..NumLaneKeys |-> LaneKeyAt(i)],
                          LAMBDA k : grp(k) # <<>>)
    IN  [i \in 1..Len(keys) |->
            [Origin       |-> keys[i].Origin,
             Destination  |-> keys[i].Destination,
             Carrier      |-> keys[i].Carrier,
             ServiceLevel |-> keys[i].ServiceLevel,
             on_time_prob |-> Mean(grp(keys[i]), "OnTimeDelivery"),
             est_cost     |-> Mean(grp(keys[i]), "ShipmentCost"),
             avg_dist     |-> Mean(grp(keys[i]), "Distance"),
             n            |-> Len(grp(keys[i]))]]

\* Every (Hospital, Medicine, Month) key in groupby order
DemandKeyAt(i) ==
    LET nM == Len(SortedMedicines)
        nT == 12
        j  == i - 1
    IN  [Hospital |-> SortedHospitals[(j \div (nM * nT)) + 1],
         Medicine |-> SortedMedicines[((j \div nT) % nM) + 1],
         Month    |-> (j % nT) + 1]

NumDemandKeys == Len(SortedHospitals) * Len(SortedMedicines) * 12

baseline_demand(demand_rows) ==
    LET grp(k) == DemandKeyRows(demand_rows, k.Hospital, k.Medicine, k.Month)
        keys == SelectSeq([i \in 1..NumDemandKeys |-> DemandKeyAt(i)],
                          LAMBDA k : grp(k) # <<>>)
    IN  [i \in 1..Len(keys) |->
            [Hospital |-> keys[i].Hospital,
             Medicine |-> keys[i].Medicine,
             Month    |-> keys[i].Month,
             pred_monthly_demand |-> Mean(grp(keys[i]), "Demand")]]

\* A carrier_lane_stats.csv found on disk: loaded as is, it need not agree
\* with the shipment history.
LoadedLaneStats ==
    << [Origin |-> "Austin", Destination |-> "Xenia", Carrier |-> "CarrierB",
        ServiceLevel |-> "Standard", on_time_prob |-> R(9, 10),
        est_cost |-> Float(320), avg_dist |-> Float(730), n |-> 40],
       [Origin |-> "Austin", Destination |-> "Yuma", Carrier |-> "CarrierA",
        ServiceLevel |-> "Standard", on_time_prob |-> R(3, 5),
        est_cost |-> Float(200), avg_dist |-> Float(310), n |-> 12] >>

\* ------------------------------------------------------------------------
\* The pickled predictors (opaque artifacts; each is a fixed function of
\* its feature row)
\* ------------------------------------------------------------------------
\* models["hc_demand"].predict(x_reg)[0]: a linear regressor
DemandModelPredict(x) ==
    Float(400 - 3 * x.Inventory + 10 * x.LeadTimeDays)

\* models["hc_risk"].predict_proba(x_cls)[0,1]: a decision stump
ShortageModelProba(x) ==
    IF x.Inventory < 100 THEN R(9, 10) ELSE R(1, 10)

\* models["sc_on_time"].predict_proba(x_sc)[0,1]
OnTimeModelProba(x) ==
    LET base == CASE x.Carrier = "CarrierA" -> R(3, 5)
                  [] x.Carrier = "CarrierB" -> R(4, 5)
                  [] OTHER -> R(3, 4)
        far  == IF RLt(Float(750), x.Distance) THEN R(1, 10) ELSE Float(0)
    IN  RSub(base, far)

\* models["sc_cost"].predict(x_sc)[0]
CostModelPredict(x) ==
    RAdd(RMul(x.Distance, R(2, 5)), Float(25 * x.Stops + x.Weight \div 1000))

\* ------------------------------------------------------------------------
\* State
\* ------------------------------------------------------------------------
VARIABLES
    sc_shipments,     \* supply_chain_shipments.csv, as loaded
    hc_df,            \* healthcare_demand.csv, as loaded
    lane_stats,       \* carrier_lane_stats.csv, or computed at load
    demand_baseline,  \* baseline_demand(hc_df)
    models,           \* the four predictor slots, None when not loadable
    pc,               \* "idle": no script run in progress; "done": a run has rendered
    run_clicked,      \* st.form_submit_button of the run
    query,            \* the form's values in the run
    result,           \* what the run computed and rendered
    comp              \* the carrier comparison table of the run

vars == <<sc_shipments, hc_df, lane_stats, demand_baseline, models, pc,
          run_clicked, query, result, comp>>

data == <<sc_shipments, hc_df, lane_stats, demand_baseline, models>>

\* Selectbox options of the form
hospitals == SortedUnique(hc_df, "Hospital", SortedHospitals)
medicines == SortedUnique(hc_df, "Medicine", SortedMedicines)
origins == SortedUnique(sc_shipments, "Origin", SortedOrigins)
destinations == SortedUnique(sc_shipments, "Destination", SortedDestinations)
carriers == SortedUnique(sc_shipments, "Carrier", SortedCarriers)
service_levels == SortedUnique(sc_shipments, "ServiceLevel", SortedServiceLevels)

Range(seq) == {seq[i] : i \in 1..Len(seq)}

\* Values tried for the numeric inputs of the form
MonthInputs == {1, 6}
InventoryInputs == {0, 70, 150}
LeadTimeInputs == {1, 7}
DistanceInputs == {0, 500}
WeightInputs == {35000}
StopsInputs == {2}

\* ------------------------------------------------------------------------
\* Core computations (hybrid: models if available; else stats)
\* ------------------------------------------------------------------------
\* Variant: the daily need is returned, the lead time is forgotten
BufferNeedDaily(demand_pred, lead_time_days) ==
    RDiv(demand_pred, Float(DaysPerMonth))

BufferNeed(demand_pred, lead_time_days) ==
    RMul(RDiv(demand_pred, Float(DaysPerMonth)), Float(lead_time_days))

\* Variant: the exact (hospital, medicine, month) baseline is never looked up
ResolveDemandNoExact(x) ==
    IF models.hc_demand # None
    THEN [demand_pred |-> DemandModelPredict(x), demand_via |-> "model"]
    ELSE [demand_pred |->
              Mean(SelectSeq(hc_df, LAMBDA r : r.Medicine = x.Medicine),
                   "Demand"),
          demand_via |-> "medicine_mean"]

ResolveDemand(x) ==
    IF models.hc_demand # None
    THEN [demand_pred |-> DemandModelPredict(x), demand_via |-> "model"]
    ELSE LET row == DemandKeyRows(demand_baseline, x.Hospital, x.Medicine,
                                  x.Month)
         IN  IF row # <<>>
             THEN [demand_pred |-> row[1].pred_monthly_demand,
                   demand_via |-> "baseline"]
             ELSE [demand_pred |->
                       Mean(SelectSeq(hc_df,
                                LAMBDA r : r.Medicine = x.Medicine), "Demand"),
                   demand_via |-> "medicine_mean"]

\* Variant: the heuristic compares with <= instead of <
ResolveShortageInclusive(x, demand_pred) ==
    IF models.hc_risk # None
    THEN [shortage_prob |-> ShortageModelProba(x), risk_via |-> "model"]
    ELSE LET buffer_need == BufferNeed(demand_pred, x.LeadTimeDays)
         IN  [shortage_prob |-> IF RLe(Float(x.Inventory), buffer_need)
                                THEN HighShortage ELSE LowShortage,
              risk_via |-> "heuristic"]

ResolveShortage(x, demand_pred) ==
    IF models.hc_risk # None
    THEN [shortage_prob |-> ShortageModelProba(x), risk_via |-> "model"]
    ELSE LET buffer_need == BufferNeed(demand_pred, x.LeadTimeDays)
         IN  [shortage_prob |-> IF RLt(Float(x.Inventory), buffer_need)
                                THEN HighShortage ELSE LowShortage,
              risk_via |-> "heuristic"]

predict_demand_and_risk(hospital, medicine, month, current_inventory, lead_time_days) ==
    LET known  == SelectSeq(hc_df, LAMBDA r : r.Hospital = hospital)
        region == IF known # <<>> THEN known[1].Region ELSE DefaultRegion
        x == [Hospital |-> hospital, Region |-> region, Medicine |-> medicine,
              Month |-> month, Inventory |-> current_inventory,
              LeadTimeDays |-> lead_time_days]
        d == ResolveDemand(x)
        s == ResolveShortage(x, d.demand_pred)
        buffer_need == BufferNeed(d.demand_pred, lead_time_days)
        inventory_gap == RSub(Float(current_inventory), buffer_need)
    IN  [demand_pred   |-> d.demand_pred,
         shortage_prob |-> s.shortage_prob,
         buffer_need   |-> buffer_need,
         inventory_gap |-> inventory_gap,
         demand_via    |-> d.demand_via,
         risk_via      |-> s.risk_via]

\* Variant: the sample-size guard is off by one
ResolveDistanceFour(origin, destination, distance_override) ==
    IF distance_override > 0
    THEN Float(distance_override)
    ELSE LET lane == LaneRows(sc_shipments, origin, destination)
         IN  IF Len(lane) >= MinLaneSamples - 1
             THEN Mean(lane, "Distance") ELSE Float(DefaultDistance)

ResolveDistance(origin, destination, distance_override) ==
    IF distance_override > 0
    THEN Float(distance_override)
    ELSE LET lane == LaneRows(sc_shipments, origin, destination)
         IN  IF Len(lane) >= MinLaneSamples
             THEN Mean(lane, "Distance") ELSE Float(DefaultDistance)

\* Variant: one registered lane predictor is enough to use the predictors
ResolveLaneEither(x) ==
    IF models.sc_on_time # None \/ models.sc_cost # None
    THEN [on_time_prob |-> OnTimeModelProba(x),
          cost_est     |-> CostModelPredict(x),
          lane_via     |-> "models"]
    ELSE LET row == LaneKeyRows(lane_stats, x.Origin, x.Destination,
                                x.Carrier, x.ServiceLevel)
         IN  IF row = <<>>
             THEN LET lane_only == LaneRows(sc_shipments, x.Origin,
                                            x.Destination)
                  IN  IF lane_only # <<>>
                      THEN [on_time_prob |-> Mean(lane_only, "OnTimeDelivery"),
                            cost_est     |-> Mean(lane_only, "ShipmentCost"),
                            lane_via     |-> "lane_only"]
                      ELSE [on_time_prob |-> DefaultOnTime,
                            cost_est     |-> DefaultCost,
                            lane_via     |-> "default"]
             ELSE [on_time_prob |-> row[1].on_time_prob,
                   cost_est     |-> row[1].est_cost,
                   lane_via     |-> "lane_stats"]

ResolveLane(x) ==
    IF models.sc_on_time # None /\ models.sc_cost # None
    THEN [on_time_prob |-> OnTimeModelProba(x),
          cost_est     |-> CostModelPredict(x),
          lane_via     |-> "models"]
    ELSE LET row == LaneKeyRows(lane_stats, x.Origin, x.Destination,
                                x.Carrier, x.ServiceLevel)
         IN  IF row = <<>>
             THEN LET lane_only == LaneRows(sc_shipments, x.Origin,
                                            x.Destination)
                  IN  IF lane_only # <<>>
                      THEN [on_time_prob |-> Mean(lane_only, "OnTimeDelivery"),
                            cost_est     |-> Mean(lane_only, "ShipmentCost"),
                            lane_via     |-> "lane_only"]
                      ELSE [on_time_prob |-> DefaultOnTime,
                            cost_est     |-> DefaultCost,
                            lane_via     |-> "default"]
             ELSE [on_time_prob |-> row[1].on_time_prob,
                   cost_est     |-> row[1].est_cost,
                   lane_via     |-> "lane_stats"]

estimate_lane(origin, destination, carrier, service, distance_override, weight, stops) ==
    LET distance == ResolveDistance(origin, destination, distance_override)
        x == [Origin |-> origin, Destination |-> destination,
              Carrier |-> carrier, ServiceLevel |-> service,
              Distance |-> distance, Weight |-> weight, Stops |-> stops]
        l == ResolveLane(x)
    IN  [distance     |-> distance,
         on_time_prob |-> l.on_time_prob,
         cost_est     |-> l.cost_est,
         lane_via     |-> l.lane_via]

\* ------------------------------------------------------------------------
\* Decision rule and carrier comparison
\* ------------------------------------------------------------------------
\* Variant: both signals are required to order
DecisionBoth(shortage_prob, inventory_gap, on_time_prob) ==
    LET order_now == RGe(shortage_prob, ShortageCutoff)
                        /\ RLt(inventory_gap, Float(0))
        risk_flag == RLt(on_time_prob, OnTimeCutoff)
    IN  [order_now      |-> order_now,
         risk_flag      |-> risk_flag,
         recommendation |-> IF order_now THEN "ORDER NOW" ELSE "OK TO WAIT",
         logistics_note |-> IF risk_flag THEN "Lane/Carrier risk is HIGH"
                                         ELSE "Lane/Carrier risk acceptable"]

\* Variant: a high lane risk also triggers the order
DecisionLaneRisk(shortage_prob, inventory_gap, on_time_prob) ==
    LET risk_flag == RLt(on_time_prob, OnTimeCutoff)
        order_now == \/ RGe(shortage_prob, ShortageCutoff)
                     \/ RLt(inventory_gap, Float(0))
                     \/ risk_flag
    IN  [order_now      |-> order_now,
         risk_flag      |-> risk_flag,
         recommendation |-> IF order_now THEN "ORDER NOW" ELSE "OK TO WAIT",
         logistics_note |-> IF risk_flag THEN "Lane/Carrier risk is HIGH"
                                         ELSE "Lane/Carrier risk acceptable"]

Decision(shortage_prob, inventory_gap, on_time_prob) ==
    LET order_now == RGe(shortage_prob, ShortageCutoff)
                        \/ RLt(inventory_gap, Float(0))
        risk_flag == RLt(on_time_prob, OnTimeCutoff)
    IN  [order_now      |-> order_now,
         risk_flag      |-> risk_flag,
         recommendation |-> IF order_now THEN "ORDER NOW" ELSE "OK TO WAIT",
         logistics_note |-> IF risk_flag THEN "Lane/Carrier risk is HIGH"
                                         ELSE "Lane/Carrier risk acceptable"]

\* The part of the run that computes the metrics and the decision
Recommend(q) ==
    LET dr == predict_demand_and_risk(q.hospital, q.medicine, q.month,
                                      q.current_inventory, q.lead_time_days)
        ln == estimate_lane(q.origin, q.destination, q.carrier, q.service,
                            q.distance_input, q.weight, q.stops)
        dc == Decision(dr.shortage_prob, dr.inventory_gap, ln.on_time_prob)
    IN  [demand_pred    |-> dr.demand_pred,
         shortage_prob  |-> dr.shortage_prob,
         buffer_need    |-> dr.buffer_need,
         inventory_gap  |-> dr.inventory_gap,
         demand_via     |-> dr.demand_via,
         risk_via       |-> dr.risk_via,
         distance       |-> ln.distance,
         on_time_prob   |-> ln.on_time_prob,
         cost_est       |-> ln.cost_est,
         lane_via       |-> ln.lane_via,
         order_now      |-> dc.order_now,
         risk_flag      |-> dc.risk_flag,
         recommendation |-> dc.recommendation,
         logistics_note |-> dc.logistics_note]

\* One row of the comparison for carrier c
CompRow(q, c, recommendation) ==
    LET e == estimate_lane(q.origin, q.destination, c, q.service,
                           q.distance_input, q.weight, q.stops)
    IN  [Carrier             |-> c,
         on_time_probability |-> e.on_time_prob,
         estimated_cost      |-> e.cost_est,
         recommendation      |-> IF RGe(e.on_time_prob, OnTimeCutoff)
                                 THEN recommendation
                                 ELSE "Consider alternate/expedite"]

\* Variant: the table is kept in ascending order
RECURSIVE InsertAscending(_, _)
InsertAscending(table, row) ==
    IF table = <<>> THEN <<row>>
    ELSE IF RLe(table[1].on_time_probability, row.on_time_probability)
         THEN <<table[1]>> \o InsertAscending(Tail(table), row)
         ELSE <<row>> \o table

\* Place row in a table already in descending order, after the rows that
\* are not smaller (rows of equal value keep the order of arrival).
RECURSIVE InsertDescending(_, _)
InsertDescending(table, row) ==
    IF table = <<>> THEN <<row>>
    ELSE IF RGe(table[1].on_time_probability, row.on_time_probability)
         THEN <<table[1]>> \o InsertDescending(Tail(table), row)
         ELSE <<row>> \o table

\* DataFrame.sort_values("on_time_probability", ascending=False)
RECURSIVE SortDescending(_)
SortDescending(rows) ==
    IF rows = <<>> THEN <<>>
    ELSE InsertDescending(SortDescending(SubSeq(rows, 1, Len(rows) - 1)),
                          rows[Len(rows)])

CompareCarriers(q, recommendation) ==
    SortDescending([i \in 1..Len(carriers) |->
                        CompRow(q, carriers[i], recommendation)])

\* ------------------------------------------------------------------------
\* Initial state: data and models loaded, no run rendered yet
\* ------------------------------------------------------------------------
NoQuery == [hospital |-> None]
NoResult == [recommendation |-> None]

ModelSlots == {"sc_on_time", "sc_cost", "hc_demand", "hc_risk"}

Init ==
    /\ \E k \in 1..MaxShipments : sc_shipments = Rows(ShipmentPool, k)
    /\ \E m \in 1..MaxDemandRecords : hc_df = Rows(DemandPool, m)
    /\ \E found \in BOOLEAN :
          lane_stats = IF found THEN LoadedLaneStats
                       ELSE compute_lane_stats(sc_shipments)
    /\ demand_baseline = baseline_demand(hc_df)
    /\ \E loaded \in SUBSET ModelSlots :
          models = [s \in ModelSlots |-> IF s \in loaded THEN s ELSE None]
    /\ pc = "idle"
    /\ run_clicked = FALSE
    /\ query = NoQuery
    /\ result = NoResult
    /\ comp = <<>>

\* ------------------------------------------------------------------------
\* Script runs
\* ------------------------------------------------------------------------
FormValues ==
    [hospital          : Range(hospitals),
     medicine          : Range(medicines),
     month             : MonthInputs,
     current_inventory : InventoryInputs,
     lead_time_days    : LeadTimeInputs,
     origin            : Range(origins),
     destination       : Range(destinations),
     carrier           : Range(carriers),
     service           : Range(service_levels),
     distance_input    : DistanceInputs,
     weight            : WeightInputs,
     stops             : StopsInputs]

\* Variant: a lane statistic missing for the query is added to lane_stats
RunClickedCaching ==
    /\ pc = "idle"
    /\ \E q \in FormValues :
          LET r == Recommend(q)
          IN  /\ query' = q
              /\ result' = r
              /\ comp' = CompareCarriers(q, r.recommendation)
              /\ lane_stats' =
                    IF r.lane_via \in {"lane_only", "default"}
                    THEN Append(lane_stats,
                             [Origin |-> q.origin,
                              Destination |-> q.destination,
                              Carrier |-> q.carrier,
                              ServiceLevel |-> q.service,
                              on_time_prob |-> r.on_time_prob,
                              est_cost |-> r.cost_est,
                              avg_dist |-> r.distance, n |-> 0])
                    ELSE lane_stats
    /\ run_clicked' = TRUE
    /\ pc' = "done"
    /\ UNCHANGED <<sc_shipments, hc_df, demand_baseline, models>>

\* The form is submitted: the script runs with run_clicked = True
RunClicked ==
    /\ pc = "idle"
    /\ \E q \in FormValues :
          LET r == Recommend(q)
          IN  /\ query' = q
              /\ result' = r
              /\ comp' = CompareCarriers(q, r.recommendation)
    /\ run_clicked' = TRUE
    /\ pc' = "done"
    /\ UNCHANGED data

\* The script runs without a submit (the first load of the page): the form
\* shows its defaults and only the caption is rendered
RunIdle ==
    /\ pc = "idle"
    /\ \E current_month \in months :
          query' = [hospital          |-> hospitals[1],
                    medicine          |-> medicines[1],
                    month             |-> current_month,
                    current_inventory |-> 150,
                    lead_time_days    |-> 7,
                    origin            |-> origins[1],
                    destination       |-> destinations[1],
                    carrier           |-> carriers[1],
                    service           |-> service_levels[1],
                    distance_input    |-> 0,
                    weight            |-> 35000,
                    stops             |-> 1]
    /\ run_clicked' = FALSE
    /\ result' = NoResult
    /\ comp' = <<>>
    /\ pc' = "done"
    /\ UNCHANGED data

\* The run is over: its variables are gone, the cached data and models stay
ScriptEnd ==
    /\ pc = "done"
    /\ pc' = "idle"
    /\ run_clicked' = FALSE
    /\ query' = NoQuery
    /\ result' = NoResult
    /\ comp' = <<>>
    /\ UNCHANGED data

Next == RunClicked \/ RunIdle \/ ScriptEnd

Spec == Init /\ [][Next]_vars

\* The same program started on the largest files of the bounds, with no
\* carrier_lane_stats.csv on disk
InitAllData ==
    /\ sc_shipments = Rows(ShipmentPool, MaxShipments)
    /\ hc_df = Rows(DemandPool, MaxDemandRecords)
    /\ lane_stats = compute_lane_stats(sc_shipments)
    /\ demand_baseline = baseline_demand(hc_df)
    /\ \E loaded \in SUBSET ModelSlots :
          models = [s \in ModelSlots |-> IF s \in loaded THEN s ELSE None]
    /\ pc = "idle"
    /\ run_clicked = FALSE
    /\ query = NoQuery
    /\ result = NoResult
    /\ comp = <<>>

SpecAllData == InitAllData /\ [][Next]_vars

\* ------------------------------------------------------------------------
\* Properties
\* ------------------------------------------------------------------------
Evaluated == pc = "done" /\ run_clicked

Registered(slot) == models[slot] # None

\* C1: whatever predictors are registered, the returned buffer_need is
\* (demand_pred / 30) * lead_time_days and the returned inventory_gap is
\* current_inventory - buffer_need, both from the returned demand_pred.
C1_GapFromFinalDemand ==
    Evaluated =>
        LET d == result.demand_pred
            b == result.buffer_need
            g == result.inventory_gap
        IN  /\ b[1] * d[2] * 30 = d[1] * query.lead_time_days * b[2]
            /\ g[1] * b[2] = (query.current_inventory * b[2] - b[1]) * g[2]

C1_Witness ==
    /\ Evaluated
    /\ Registered("hc_demand") /\ Registered("hc_risk")
    /\ query.lead_time_days = 7
    /\ result.buffer_need[2] # 1
    /\ RLt(result.inventory_gap, Float(0))

\* C2: order_now = (shortage_prob >= 0.5) OR (inventory_gap < 0); a negative
\* gap orders even when the classifier's probability is below 0.5.
C2_OrderNowRule ==
    Evaluated =>
        /\ result.order_now <=>
              (\/ 2 * result.shortage_prob[1] >= result.shortage_prob[2]
               \/ result.inventory_gap[1] < 0)
        /\ result.inventory_gap[1] < 0 => result.order_now

C2_Witness ==
    /\ Evaluated
    /\ Registered("hc_risk")
    /\ 2 * result.shortage_prob[1] < result.shortage_prob[2]
    /\ result.inventory_gap[1] < 0
    /\ result.order_now

\* What the statistics give for a lane when the predictors are not used:
\* the first lane statistic of the exact key, else the means over the
\* (origin, destination) records, else the fixed defaults.
StatIdx(carrier) ==
    {i \in 1..Len(lane_stats) :
        /\ lane_stats[i].Origin = query.origin
        /\ lane_stats[i].Destination = query.destination
        /\ lane_stats[i].Carrier = carrier
        /\ lane_stats[i].ServiceLevel = query.service}

PairIdx ==
    {i \in 1..Len(sc_shipments) :
        /\ sc_shipments[i].Origin = query.origin
        /\ sc_shipments[i].Destination = query.destination}

RECURSIVE SumOver(_, _)
SumOver(idx, col) ==
    IF idx = {} THEN 0
    ELSE LET i == CHOOSE j \in idx : TRUE
         IN  sc_shipments[i][col] + SumOver(idx \ {i}, col)

\* v is the mean of column col over the records of the queried pair
IsPairMean(v, col) ==
    v[1] * Cardinality(PairIdx) = SumOver(PairIdx, col) * v[2]

FromStatistics(carrier, on_time_prob, cost_est) ==
    IF StatIdx(carrier) # {}
    THEN LET i == CHOOSE j \in StatIdx(carrier) :
                      \A k \in StatIdx(carrier) : j <= k
         IN  /\ on_time_prob = lane_stats[i].on_time_prob
             /\ cost_est = lane_stats[i].est_cost
    ELSE IF PairIdx # {}
         THEN /\ IsPairMean(on_time_prob, "OnTimeDelivery")
              /\ IsPairMean(cost_est, "ShipmentCost")
         ELSE /\ on_time_prob = <<13, 20>>
              /\ cost_est = <<300, 1>>

\* C3: unless both the on-time classifier and the cost regressor are
\* registered, estimate_lane takes (on_time_prob, cost_est) from the exact
\* lane statistic, else from the (origin, destination) means, else returns
\* (0.65, 300.0), and invokes no predictor.
C3_LaneStatisticsFallback ==
    (Evaluated /\ ~(Registered("sc_on_time") /\ Registered("sc_cost"))) =>
        /\ result.lane_via # "models"
        /\ FromStatistics(query.carrier, result.on_time_prob, result.cost_est)
        /\ \A i \in 1..Len(comp) :
              FromStatistics(comp[i].Carrier, comp[i].on_time_probability,
                             comp[i].estimated_cost)

C3_Witness ==
    /\ Evaluated
    /\ Registered("sc_on_time") /\ ~Registered("sc_cost")
    /\ StatIdx(query.carrier) = {} /\ PairIdx = {}
    /\ result.on_time_prob = <<13, 20>> /\ result.cost_est = <<300, 1>>

\* C4: a positive distance_override is returned verbatim; otherwise the
\* mean Distance of the (origin, destination) records if at least 5 exist,
\* and 800 if fewer do.
C4_DistanceResolution ==
    Evaluated =>
        IF query.distance_input > 0
        THEN result.distance = <<query.distance_input, 1>>
        ELSE IF Cardinality(PairIdx) >= 5
             THEN IsPairMean(result.distance, "Distance")
             ELSE result.distance = <<800, 1>>

C4_Witness ==
    /\ Evaluated
    /\ query.distance_input = 0
    /\ Cardinality(PairIdx) = 4
    /\ result.distance = <<800, 1>>
    /\ ~IsPairMean(result.distance, "Distance")

ExactIdx ==
    {i \in 1..Len(hc_df) :
        /\ hc_df[i].Hospital = query.hospital
        /\ hc_df[i].Medicine = query.medicine
        /\ hc_df[i].Month = query.month}

MedicineIdx ==
    {i \in 1..Len(hc_df) : hc_df[i].Medicine = query.medicine}

RECURSIVE DemandOver(_)
DemandOver(idx) ==
    IF idx = {} THEN 0
    ELSE LET i == CHOOSE j \in idx : TRUE
         IN  hc_df[i].Demand + DemandOver(idx \ {i})

IsDemandMean(v, idx) == v[1] * Cardinality(idx) = DemandOver(idx) * v[2]

QueryFeatures ==
    [Hospital |-> query.hospital,
     Region |-> (CHOOSE r \in {hc_df[i].Region : i \in 1..Len(hc_df)} :
                    \E i \in 1..Len(hc_df) :
                        /\ hc_df[i].Hospital = query.hospital
                        /\ hc_df[i].Region = r
                        /\ \A j \in 1..(i - 1) :
                              hc_df[j].Hospital # query.hospital),
     Medicine |-> query.medicine, Month |-> query.month,
     Inventory |-> query.current_inventory,
     LeadTimeDays |-> query.lead_time_days]

\* C5: demand_pred is the demand predictor's output when one is registered
\* (no baseline consulted); otherwise the mean Demand of the exact
\* (hospital, medicine, month) key when that key has records; otherwise the
\* mean Demand of all records of the medicine.
C5_DemandThreeTier ==
    Evaluated =>
        IF Registered("hc_demand")
        THEN /\ result.demand_via = "model"
             /\ result.demand_pred = DemandModelPredict(QueryFeatures)
        ELSE IF ExactIdx # {}
             THEN /\ result.demand_via = "baseline"
                  /\ IsDemandMean(result.demand_pred, ExactIdx)
             ELSE /\ result.demand_via = "medicine_mean"
                  /\ IsDemandMean(result.demand_pred, MedicineIdx)

C5_Witness ==
    /\ Evaluated
    /\ ~Registered("hc_demand")
    /\ ExactIdx = {}
    /\ Cardinality(MedicineIdx) >= 2
    /\ \E i \in 1..Len(hc_df) : hc_df[i].Hospital = query.hospital
                                  /\ hc_df[i].Medicine = query.medicine
    /\ \A i \in MedicineIdx : result.demand_pred # <<hc_df[i].Demand, 1>>
    /\ IsDemandMean(result.demand_pred, MedicineIdx)

\* C6: for valid inputs and any combination of registered predictors,
\* demand_pred >= 0 and shortage_prob is in [0, 1].
C6_DemandNonNegative ==
    Evaluated =>
        /\ result.demand_pred[1] >= 0
        /\ result.shortage_prob[1] >= 0
        /\ result.shortage_prob[1] <= result.shortage_prob[2]

\* C7: the comparison table has one row per known carrier, each the
\* estimate_lane of the query with only the carrier varied, in descending
\* order of on_time_prob.
C7_ComparisonTable ==
    Evaluated =>
        LET known == {sc_shipments[i].Carrier : i \in 1..Len(sc_shipments)}
        IN  /\ Len(comp) = Cardinality(known)
            /\ {comp[i].Carrier : i \in 1..Len(comp)} = known
            /\ \A i \in 1..Len(comp) :
                  LET e == estimate_lane(query.origin, query.destination,
                               comp[i].Carrier, query.service,
                               query.distance_input, query.weight, query.stops)
                  IN  /\ comp[i].on_time_probability = e.on_time_prob
                      /\ comp[i].estimated_cost = e.cost_est
            /\ \A i, j \in 1..Len(comp) :
                  i < j => ~RLt(comp[i].on_time_probability,
                                comp[j].on_time_probability)

C7_Witness ==
    /\ Evaluated
    /\ Len(comp) = 3
    /\ comp[1].Carrier = "CarrierC"
    /\ comp[3].Carrier = "CarrierA"
    /\ RLt(comp[3].on_time_probability, comp[2].on_time_probability)
    /\ RLt(comp[2].on_time_probability, comp[1].on_time_probability)

\* C8: an evaluation leaves the shipment records, demand records, lane
\* statistics, demand baselines and predictor registry unchanged, and its
\* outputs are determined by its own query and the loaded data.
C8_EvaluationIsPure ==
    [][/\ data' = data
       /\ (pc' = "done" /\ run_clicked') =>
             /\ result' = Recommend(query')
             /\ comp' = CompareCarriers(query', result'.recommendation)]_vars

C8_Witness ==
    /\ Evaluated
    /\ demand_baseline = baseline_demand(hc_df)
    /\ lane_stats = compute_lane_stats(sc_shipments)
    /\ result.lane_via = "lane_only"
    /\ result = Recommend(query)

\* C9: without a shortage classifier, shortage_prob is 0.8 exactly when
\* inventory_gap < 0 and 0.2 otherwise, and order_now holds iff
\* inventory_gap < 0.
C9_HeuristicCoincides ==
    (Evaluated /\ ~Registered("hc_risk")) =>
        /\ result.shortage_prob =
              IF result.inventory_gap[1] < 0 THEN <<4, 5>> ELSE <<1, 5>>
        /\ result.order_now <=> result.inventory_gap[1] < 0

C9_Witness ==
    /\ Evaluated
    /\ ~Registered("hc_risk")
    /\ result.inventory_gap = <<0, 1>>
    /\ query.current_inventory > 0
    /\ result.shortage_prob = <<1, 5>>
    /\ ~result.order_now

\* The queries that differ from the run's query on the lane side only
LaneVariants ==
    {[query EXCEPT !.origin = l[1], !.destination = l[2], !.carrier = l[3],
                   !.service = l[4], !.distance_input = l[5],
                   !.weight = l[6], !.stops = l[7]] :
        l \in Range(origins) \X Range(destinations) \X Range(carriers)
                \X Range(service_levels) \X DistanceInputs \X WeightInputs
                \X StopsInputs}

\* C10: order_now does not depend on the lane side: every query with the
\* same (hospital, medicine, month, current_inventory, lead_time_days)
\* gives the same order_now, whatever its on_time_prob and risk_flag are.
C10_OrderIgnoresLane ==
    Evaluated =>
        \A q \in LaneVariants : Recommend(q).order_now = result.order_now

C10_Witness ==
    /\ Evaluated
    /\ result.risk_flag
    /\ ~result.order_now
    /\ \E q \in LaneVariants : ~Recommend(q).risk_flag

====
